---- MODULE Spec2Model ----
(***************************************************************************)
(* A model of report_builder.py: the paginated fetchers, the validators,   *)
(* the report composer, the report file lifecycle (archive, write, verify, *)
(* roll back) and the orchestrating loop.                                  *)
(*                                                                         *)
(* Text is modelled by the parts the code reads:                           *)
(*  - a file's content is [date, body, complete, cr, wide, utf8]: date is  *)
(*    the first "DD.MM.YYYY HH:MM" substring the regular expression of     *)
(*    get_date finds, as <<day, month, year, hour, minute>>, or <<>> when  *)
(*    the text                                                             *)
(*    holds none; body tells texts apart up to their line ends; complete   *)
(*    is FALSE for the remains of a torn write; cr is TRUE when the text   *)
(*    holds a carriage return, which reading in text mode turns into a     *)
(*    line feed; wide is TRUE when the text holds a character that UTF-8   *)
(*    encodes in several bytes; utf8 is FALSE when the bytes of the file   *)
(*    are not valid UTF-8, which is what a write that stops inside such a  *)
(*    character leaves;                                                    *)
(*  - a file name is [old, user, date]: "{user}.txt" has old = FALSE and   *)
(*    date = <<>>; "old_{user}_{date}.txt" has old = TRUE and date the     *)
(*    text get_date returned: <<year, month, day, hour, minute>> for       *)
(*    "YYYY-MM-DDTHH:MM", or <<0>> for the text "0";                        *)
(*  - a username is a sequence of characters, so that its use as a         *)
(*    regular expression in get_last_report can be followed.               *)
(* Header dates are calendar dates (datetime() accepts them).              *)
(***************************************************************************)
EXTENDS Integers, Sequences, FiniteSets, TLC

VARIABLES
    fs,        \* the directory tasks/: file name -> content
    calls,     \* number of save_report calls made
    saved,     \* the reports that were written and verified so far
    last,      \* record of the last save_report call
    users_remote,  \* the users endpoint: the response to each page number
    users_gen,     \* the generator get_users()
    todo_user,     \* the user id a stand-alone get_todos(user_id) was called with
    todos_gen,     \* that generator
    page,      \* __main__: the page of users the outer loop holds
    idx,       \* __main__: position of the inner loop in page
    status,    \* __main__: "running", "done", or "raised" (uncaught exception)
    clock,     \* __main__: the latest value datetime.now() returned
    step       \* __main__: record of the last loop iteration

\* ------------------------------------------------------------------ bounds
MaxSaves == 4

\* ------------------------------------------------------------ input domains
Usernames == { <<"a", "x", "b">>, <<"a", ".", "b">> }

\* DD.MM.YYYY HH:MM as <<day, month, year, hour, minute>>
Stamps == { <<1, 2, 2024, 10, 0>>, <<2, 1, 2024, 10, 0>> }

NoDate == <<>>

Bodies == { <<1>>, <<2>> }

\* the bodies that hold a character of several bytes (a Cyrillic name)
WideBodies == { <<2>> }

\* the texts save_report is called with: without a carriage return, and one with
Reports ==
    { [date |-> date, body |-> body, complete |-> TRUE, cr |-> FALSE,
       wide |-> body \in WideBodies, utf8 |-> TRUE] :
         date \in Stamps \cup {NoDate}, body \in Bodies }
    \cup { [date |-> <<1, 2, 2024, 10, 0>>, body |-> <<1>>, complete |-> TRUE,
            cr |-> TRUE, wide |-> FALSE, utf8 |-> TRUE] }

\* datetime.datetime.now() as <<year, month, day, hour, minute>>
Todays == { <<2024, 1, 15, 9, 30>>, <<2024, 3, 1, 12, 0>> }

\* what the write step can do with a report: write it all, fail in open(),
\* stop between two characters, or stop inside a character of several bytes
WriteOutcomes(report) ==
    {"ok", "open_fail", "torn"} \cup (IF report.wide THEN {"torn_in_char"} ELSE {})

NoContent == [date |-> NoDate, body |-> <<>>, complete |-> FALSE, cr |-> FALSE,
              wide |-> FALSE, utf8 |-> TRUE]

\* stands for the exception read() raises on bytes that are not valid UTF-8
UnicodeDecodeError == <<-1>>

NoName == [old |-> FALSE, user |-> <<>>, date |-> <<>>]

\* ------------------------------------------------------------- file system
\* os.path.isfile
isfile(dir, path) == path \in DOMAIN dir

\* os.rename on POSIX: an existing destination is replaced
rename(dir, src, dst) ==
    [n \in (DOMAIN dir \ {src}) \cup {dst} |-> IF n = dst THEN dir[src] ELSE dir[n]]

\* os.remove
remove(dir, path) == [n \in DOMAIN dir \ {path} |-> dir[n]]

\* open(path, "w") and write(report): the outcomes of the write step
write(dir, path, report, outcome) ==
    CASE outcome = "ok" ->
           [n \in DOMAIN dir \cup {path} |-> IF n = path THEN report ELSE dir[n]]
      [] outcome = "torn" ->
           [n \in DOMAIN dir \cup {path} |->
               IF n = path THEN [report EXCEPT !.complete = FALSE] ELSE dir[n]]
      [] outcome = "torn_in_char" ->
           [n \in DOMAIN dir \cup {path} |->
               IF n = path
               THEN [report EXCEPT !.complete = FALSE, !.utf8 = FALSE]
               ELSE dir[n]]
      [] OTHER -> dir

\* open(path, "r", encoding="utf-8").read(): bytes that are not valid UTF-8
\* raise UnicodeDecodeError (a content whose body is UnicodeDecodeError stands
\* for it); otherwise text mode with universal newlines, "\r" and "\r\n" come
\* back as "\n"
read(dir, path) ==
    IF dir[path].utf8
    THEN [dir[path] EXCEPT !.cr = FALSE]
    ELSE [NoContent EXCEPT !.body = UnicodeDecodeError]

\* ---------------------------------------------------------------- get_date
\* get_date with day and month exchanged in date_format
get_date_day_first(dir, path) ==
    LET match == dir[path].date
    IN IF match # NoDate
       THEN <<match[3], match[1], match[2], match[4], match[5]>>
       ELSE <<0>>

\* date_format = "{year}-{month}-{day}T{hour}:{minute}"; 0 when nothing matches;
\* the exception of file.read() is not caught
get_date(dir, path) ==
    LET text == read(dir, path)
        match == text.date
    IN IF text.body = UnicodeDecodeError THEN UnicodeDecodeError
       ELSE IF match # NoDate
       THEN <<match[3], match[2], match[1], match[4], match[5]>>
       ELSE <<0>>

\* ---------------------------------------------------------- create_filename
create_filename(username, date) ==
    IF date = <<>>
    THEN [old |-> FALSE, user |-> username, date |-> <<>>]
    ELSE [old |-> TRUE, user |-> username, date |-> date]

\* ------------------------------------------------------------ validate_file
\* the file is read back in text mode and compared with the report; "raised"
\* when read() raises, which validate_file does not catch
validate_file(dir, file_path, report) ==
    IF isfile(dir, file_path)
    THEN LET text == read(dir, file_path)
         IN IF text.body = UnicodeDecodeError THEN "raised"
            ELSE IF text = report THEN "True" ELSE "False"
    ELSE "None"

\* ---------------------------------------------------------- get_last_report
\* the username as a pattern, from position i, against text from position j:
\* "." stands for any character, "(" and ")" delimit a group and match nothing
\* (usernames hold no other special character)
RECURSIVE pattern_match(_, _, _, _)
pattern_match(pattern, i, text, j) ==
    IF i > Len(pattern) THEN j > Len(text)
    ELSE IF pattern[i] \in {"(", ")"} THEN pattern_match(pattern, i + 1, text, j)
    ELSE /\ j <= Len(text)
         /\ pattern[i] = "." \/ pattern[i] = text[j]
         /\ pattern_match(pattern, i + 1, text, j + 1)

\* re.match of f"old_{username}_YYYY-MM-DDTHH:MM.txt": the username is part of
\* the pattern, unescaped; the name old_{username}_0.txt has no such date
re_match(username, file_name) ==
    /\ file_name.old
    /\ Len(file_name.date) = 5
    /\ pattern_match(username, 1, file_name.user, 1)

IsLeap(y) == (y % 4 = 0 /\ y % 100 # 0) \/ y % 400 = 0

DaysBeforeYear(y) == (y - 1) * 365 + (y - 1) \div 4 - (y - 1) \div 100 + (y - 1) \div 400

DaysBeforeMonth(y, m) ==
    LET cum == <<0, 31, 59, 90, 120, 151, 181, 212, 243, 273, 304, 334>>
    IN cum[m] + (IF m > 2 /\ IsLeap(y) THEN 1 ELSE 0)

\* datetime.datetime(year, month, day, hour, minute), in minutes
datetime(d) ==
    (DaysBeforeYear(d[1]) + DaysBeforeMonth(d[1], d[2]) + d[3]) * 1440 + d[4] * 60 + d[5]

\* the loop over os.listdir("tasks/"), which lists the directory in any order:
\* the values last_report can have after the names in rest were visited in some
\* order, given the running min_dif and last_report. A name that does not match
\* changes neither, wherever the listing has it.
RECURSIVE scan(_, _, _, _, _)
scan(rest, username, today, min_dif, last_report) ==
    LET no_match == { file_name \in rest : ~ re_match(username, file_name) }
    IN IF rest = {} THEN {last_report}
       ELSE IF no_match # {}
       THEN scan(rest \ no_match, username, today, min_dif, last_report)
       ELSE UNION {
              LET diff == datetime(today) - datetime(file_name.date)
              IN IF last_report = NoName \/ diff < min_dif
                 THEN scan(rest \ {file_name}, username, today, diff, file_name)
                 ELSE scan(rest \ {file_name}, username, today, min_dif, last_report)
              : file_name \in rest }

\* the names get_last_report can return: one per order of the listing and per
\* value datetime.datetime.now() can have (todays)
get_last_report(dir, username, todays) ==
    UNION { scan(DOMAIN dir, username, today, 0, NoName) : today \in todays }

\* -------------------------------------------------------------- save_report
\* lines 188-191: an existing report is renamed to its archival name
archive(dir, username) ==
    LET report_path == create_filename(username, <<>>)
    IN IF isfile(dir, report_path)
       THEN rename(dir, report_path, create_filename(username, get_date(dir, report_path)))
       ELSE dir

\* save_report that leaves the file that failed verification in place
discard_nothing(dir, report_path, file_is_valid) == dir

\* lines 201-202: a file that failed verification is removed
discard(dir, report_path, file_is_valid) ==
    IF file_is_valid = "False" THEN remove(dir, report_path) ELSE dir

\* lines 204-205: the last report found, if any, becomes the current one
restore(dir, report_path, last_report) ==
    IF last_report # NoName THEN rename(dir, last_report, report_path) ELSE dir

\* what the last call did: its arguments, the canonical content before it (prior),
\* the verification result ("raised" when the call ended with an exception),
\* the directory the rollback searched (dir) and the name get_last_report
\* returned (picked)
Record(username, report, outcome, file_is_valid, dir, last_report) ==
    LET report_path == create_filename(username, <<>>)
    IN [username |-> username, report |-> report, outcome |-> outcome,
        valid |-> file_is_valid, dir |-> dir, picked |-> last_report,
        prior |-> IF isfile(fs, report_path) THEN fs[report_path] ELSE NoContent]

\* save_report(report, username). The exception of get_date (line 189) ends the
\* call before anything is renamed or written; the exception of validate_file
\* (line 199) leaves the finally block, so that lines 201-205 do not run.
save_report(report, username, outcome, todays) ==
    LET report_path == create_filename(username, <<>>)
        archived == archive(fs, username)
        written == write(archived, report_path, report, outcome)
        file_is_valid == validate_file(written, report_path, report)
    IN IF isfile(fs, report_path) /\ get_date(fs, report_path) = UnicodeDecodeError
       THEN /\ fs' = fs
            /\ saved' = saved
            /\ last' = Record(username, report, outcome, "raised", fs, NoName)
       ELSE IF file_is_valid = "raised"
       THEN /\ fs' = written
            /\ saved' = saved
            /\ last' = Record(username, report, outcome, file_is_valid, written, NoName)
       ELSE IF file_is_valid = "True"
       THEN /\ fs' = written
            /\ saved' = saved \cup {report}
            /\ last' = Record(username, report, outcome, file_is_valid, written, NoName)
       ELSE LET cleaned == discard(written, report_path, file_is_valid)
            IN \E last_report \in get_last_report(cleaned, username, todays) :
                 /\ fs' = restore(cleaned, report_path, last_report)
                 /\ saved' = saved
                 /\ last' = Record(username, report, outcome, file_is_valid,
                                   cleaned, last_report)

\* ----------------------------------------------------------- remote service
\* A user object: keys are the keys the JSON object has ("company.name" is the
\* key "name" of the object under "company"); the other fields are their values.
User(keys, id, username) ==
    [keys |-> keys, id |-> id, username |-> username,
     name |-> IF id = 2 THEN "Cyrillic fullname" ELSE "fullname",
     email |-> "email", company |-> "company"]

\* the field values that hold a character of several bytes
WideStrings == {"Cyrillic fullname"}

AllKeys == {"id", "username", "name", "email", "company", "company.name"}

UserRecords == {
    User(AllKeys, 1, <<"a", "/", "b">>),
    User(AllKeys, 2, <<"a", ".", "b">>),
    User(AllKeys, 3, <<"a", "x", "b">>),
    User(AllKeys, 4, <<"a", "x", "b">>),
    User(AllKeys \ {"email"}, 1, <<"a", "x", "b">>),
    User(AllKeys \ {"company.name", "username"}, 1, <<>>),
    User(AllKeys, 5, <<"a", "x", "b">>),
    User(AllKeys \ {"username"}, 2, <<>>),
    User(AllKeys, 6, <<"a", "x", "b">>),
    User(AllKeys, 7, <<"a", "x", "b">>) }

UserIds == { u.id : u \in UserRecords }

\* A todo object: title is <<text, length, position of a carriage return in it
\* or 0>>, completed is the JSON value
Todo(keys, title, completed) == [keys |-> keys, title |-> title, completed |-> completed]

Response(status_code, json) == [status_code |-> status_code, json |-> json]

\* the todos endpoint: the pages served for ?userId=user_id
TodosRemote(user_id) ==
    CASE user_id = 1 ->
           << Response(200, << Todo({"title", "completed"}, <<"t1", 12, 0>>, "false"),
                               Todo({"title", "completed"}, <<"t2", 47, 0>>, "true") >>),
              Response(200, << Todo({"completed"}, <<"", 0, 0>>, "true"),
                               Todo({"title", "completed"}, <<"t3", 46, 0>>, "false") >>) >>
      [] user_id = 3 ->
           << Response(200, << Todo({"title", "completed"}, <<"t4", 5, 0>>, "null") >>) >>
      [] user_id = 4 ->
           << Response(200, << Todo({"title"}, <<"t5", 5, 0>>, "null"),
                               Todo({"completed"}, <<"", 0, 0>>, "false") >>) >>
      [] user_id = 5 ->
           << Response(200, << Todo({"title", "completed"}, <<"t6", 5, 0>>, "true") >>),
              Response(500, << >>) >>
      [] user_id = 6 ->
           << Response(200, << Todo({"title", "completed"}, <<"t7", 9, 4>>, "false") >>) >>
      [] user_id = 7 ->
           << Response(200, << Todo({"title", "completed"}, <<"t8", 48, 47>>, "true") >>) >>
      [] OTHER -> << >>

\* requests.get(URL, params={"_page": page_num}): past the data the service
\* answers 200 with the empty list
requests_get(remote, page_num) ==
    IF page_num <= Len(remote) THEN remote[page_num] ELSE Response(200, << >>)

\* page.raise_for_status() raises for the 4xx and 5xx codes
raises_for_status(status_code) == status_code >= 400 /\ status_code < 600

\* ----------------------------------------------------- get_users, get_todos
\* A generator: page_num, the requests made, the pages yielded, and its state:
\* "running" (suspended at yield or not started), "done" (returned), "raised"
NewGenerator == [page_num |-> 1, requests |-> 0, yielded |-> << >>, state |-> "running"]

\* get_users that yields the page before looking whether it is empty
get_users_yield_first(g) ==
    LET resp == requests_get(users_remote, g.page_num)
        asked == [g EXCEPT !.requests = @ + 1]
    IN IF resp.status_code # 200 /\ raises_for_status(resp.status_code)
       THEN [asked EXCEPT !.state = "raised"]
       ELSE IF resp.json = << >>
            THEN [asked EXCEPT !.state = "done", !.yielded = Append(@, resp.json)]
            ELSE [asked EXCEPT !.page_num = @ + 1, !.yielded = Append(@, resp.json)]

\* one resumption of get_users(): a request, then raise, return or yield
get_users(g) ==
    LET resp == requests_get(users_remote, g.page_num)
        asked == [g EXCEPT !.requests = @ + 1]
    IN IF resp.status_code # 200 /\ raises_for_status(resp.status_code)
       THEN [asked EXCEPT !.state = "raised"]
       ELSE IF resp.json = << >>
            THEN [asked EXCEPT !.state = "done"]
            ELSE [asked EXCEPT !.page_num = @ + 1, !.yielded = Append(@, resp.json)]

\* one resumption of get_todos(user_id)
get_todos(g, user_id) ==
    LET resp == requests_get(TodosRemote(user_id), g.page_num)
        asked == [g EXCEPT !.requests = @ + 1]
    IN IF resp.status_code # 200 /\ raises_for_status(resp.status_code)
       THEN [asked EXCEPT !.state = "raised"]
       ELSE IF resp.json = << >>
            THEN [asked EXCEPT !.state = "done"]
            ELSE [asked EXCEPT !.page_num = @ + 1, !.yielded = Append(@, resp.json)]

\* for page in get_todos(user_id): the generator resumed until it ends
RECURSIVE all_todos(_, _)
all_todos(g, user_id) ==
    IF g.state # "running" THEN g ELSE all_todos(get_todos(g, user_id), user_id)

\* ------------------------------------------------ validate_user, validate_todo
validate_user(user) == {"company", "company.name", "name", "email"} \subseteq user.keys

validate_todo(todo) == {"title", "completed"} \subseteq todo.keys

\* ------------------------------------------------------------ create_report
TitleLimit == 46

\* lines 141-142: a title longer than 46 characters is cut and "..." appended
clip(title) ==
    IF title[2] > TitleLimit
    THEN <<title[1], TitleLimit + Len(<<".", ".", ".">>),
           IF title[3] > TitleLimit THEN 0 ELSE title[3]>>
    ELSE title

\* lines 139-148: the tasks of one page added to the running lists and counts
RECURSIVE add_tasks(_, _, _)
add_tasks(acc, tasks, i) ==
    IF i > Len(tasks) THEN acc
    ELSE LET task == tasks[i]
         IN IF ~ validate_todo(task) THEN add_tasks(acc, tasks, i + 1)
            ELSE IF task.completed = "false"
                 THEN add_tasks([acc EXCEPT !.cur_tasks = Append(@, clip(task.title)),
                                            !.cur_total = @ + 1], tasks, i + 1)
                 ELSE IF task.completed = "true"
                      THEN add_tasks([acc EXCEPT !.comp_tasks = Append(@, clip(task.title)),
                                                 !.comp_total = @ + 1], tasks, i + 1)
                      ELSE add_tasks(acc, tasks, i + 1)

\* line 138: the pages in the order they were yielded
RECURSIVE add_pages(_, _, _)
add_pages(acc, pages, i) ==
    IF i > Len(pages) THEN acc
    ELSE add_pages(add_tasks(acc, pages[i], 1), pages, i + 1)

Range(lines) == { lines[i] : i \in DOMAIN lines }

NoTasks == [cur_tasks |-> << >>, comp_tasks |-> << >>, cur_total |-> 0, comp_total |-> 0]

\* The text of a report: the header date is the first DD.MM.YYYY HH:MM in it,
\* the rest of the templates' fields make the body
Text(company, fullname, email, time, total_tasks, acc) ==
    [date |-> time,
     body |-> <<company, fullname, email, total_tasks,
                acc.cur_total, acc.cur_tasks, acc.comp_total, acc.comp_tasks>>,
     complete |-> TRUE,
     cr |-> \E line \in Range(acc.cur_tasks) \cup Range(acc.comp_tasks) : line[3] > 0,
     wide |-> {company, fullname, email} \cap WideStrings # {},
     utf8 |-> TRUE]

\* create_report that returns the report also when there are no tasks
create_report_always(user, time) ==
    IF "id" \notin user.keys THEN [kind |-> "raised", report |-> NoContent]
    ELSE LET g == all_todos(NewGenerator, user.id)
             acc == add_pages(NoTasks, g.yielded, 1)
             total_tasks == acc.cur_total + acc.comp_total
         IN IF g.state = "raised" THEN [kind |-> "raised", report |-> NoContent]
            ELSE [kind |-> "report",
                  report |-> Text(user.company, user.name, user.email, time, total_tasks, acc)]

\* the result of create_report(user) at local time `time`: an exception (KeyError
\* on user["id"], HTTPError from get_todos), None, or the report text
create_report(user, time) ==
    IF "id" \notin user.keys THEN [kind |-> "raised", report |-> NoContent]
    ELSE LET g == all_todos(NewGenerator, user.id)
             acc == add_pages(NoTasks, g.yielded, 1)
             total_tasks == acc.cur_total + acc.comp_total
         IN IF g.state = "raised" THEN [kind |-> "raised", report |-> NoContent]
            ELSE IF total_tasks = 0 THEN [kind |-> "None", report |-> NoContent]
            ELSE [kind |-> "report",
                  report |-> Text(user.company, user.name, user.email, time, total_tasks, acc)]

\* -------------------------------------------------------------- __main__
\* user["username"].replace("/", "(f_slash)")
RECURSIVE replace_slash(_, _)
replace_slash(username, i) ==
    IF i > Len(username) THEN << >>
    ELSE (IF username[i] = "/"
          THEN <<"(", "f", "_", "s", "l", "a", "s", "h", ")">>
          ELSE <<username[i]>>) \o replace_slash(username, i + 1)

\* datetime.datetime.now(), as the header prints it: <<day, month, year, hour, minute>>
Times == << <<2, 1, 2024, 10, 0>>, <<1, 2, 2024, 10, 0>> >>

\* the same moment as <<year, month, day, hour, minute>>
now(t) == <<Times[t][3], Times[t][2], Times[t][1], Times[t][4], Times[t][5]>>

NoStep == [user |-> User({}, 0, << >>), validated |-> FALSE, created |-> "not called",
           report |-> NoContent, saving |-> FALSE, raised |-> FALSE]

\* ------------------------------------------------------------------ actions
\* a call save_report(report, username) on the directory
SaveReport ==
    /\ calls < MaxSaves
    /\ \E report \in Reports, username \in Usernames :
          \E outcome \in WriteOutcomes(report) :
             save_report(report, username, outcome, Todays)
    /\ calls' = calls + 1
    /\ UNCHANGED <<users_remote, users_gen, todo_user, todos_gen, page, idx, status, clock, step>>

\* a consumer resumes get_users()
GetUsersNext ==
    /\ users_gen.state = "running"
    /\ users_gen' = get_users(users_gen)
    /\ UNCHANGED <<fs, calls, saved, last, users_remote, todo_user, todos_gen,
                   page, idx, status, clock, step>>

\* a consumer resumes get_todos(todo_user)
GetTodosNext ==
    /\ todos_gen.state = "running"
    /\ todos_gen' = get_todos(todos_gen, todo_user)
    /\ UNCHANGED <<fs, calls, saved, last, users_remote, users_gen, todo_user,
                   page, idx, status, clock, step>>

\* line 263: the outer loop asks get_users() for the next page
MainNextPage ==
    /\ status = "running"
    /\ idx > Len(page)
    /\ users_gen' = get_users(users_gen)
    /\ IF users_gen'.state = "running"
       THEN /\ page' = users_gen'.yielded[Len(users_gen'.yielded)]
            /\ idx' = 1
            /\ status' = status
       ELSE /\ status' = users_gen'.state
            /\ UNCHANGED <<page, idx>>
    /\ UNCHANGED <<fs, calls, saved, last, users_remote, todo_user, todos_gen, clock, step>>

\* lines 264-273: the loop body for one user of the page
MainUser ==
    /\ status = "running"
    /\ idx <= Len(page)
    /\ idx' = idx + 1
    /\ UNCHANGED <<users_remote, users_gen, todo_user, todos_gen, page>>
    /\ LET user == page[idx]
           this == [NoStep EXCEPT !.user = user]
           \* print(user["username"], ...) raises KeyError without the key
           printed == "username" \in user.keys
       IN IF ~ validate_user(user)
          THEN /\ step' = [this EXCEPT !.raised = ~ printed]
               /\ status' = IF printed THEN "running" ELSE "raised"
               /\ UNCHANGED <<fs, calls, saved, last, clock>>
          ELSE \E t \in DOMAIN Times :
                 /\ t >= clock
                 /\ clock' = t
                 /\ LET made == create_report(user, Times[t])
                        seen == [this EXCEPT !.validated = TRUE, !.created = made.kind,
                                             !.report = made.report]
                    IN CASE made.kind = "raised" ->
                              /\ step' = [seen EXCEPT !.raised = TRUE]
                              /\ status' = "raised"
                              /\ UNCHANGED <<fs, calls, saved, last>>
                         [] made.kind = "None" ->
                              /\ step' = [seen EXCEPT !.raised = ~ printed]
                              /\ status' = IF printed THEN "running" ELSE "raised"
                              /\ UNCHANGED <<fs, calls, saved, last>>
                         [] OTHER ->
                              IF "username" \in user.keys
                              \* an exception of save_report is not caught
                              THEN /\ calls' = calls + 1
                                   /\ \E outcome \in WriteOutcomes(made.report) :
                                        save_report(made.report, replace_slash(user.username, 1),
                                                    outcome, {now(t)})
                                   /\ step' = [seen EXCEPT !.saving = TRUE,
                                                           !.raised = (last'.valid = "raised")]
                                   /\ status' = IF last'.valid = "raised"
                                                THEN "raised" ELSE "running"
                              ELSE /\ step' = [seen EXCEPT !.raised = TRUE]
                                   /\ status' = "raised"
                                   /\ UNCHANGED <<fs, calls, saved, last>>

vars == <<fs, calls, saved, last, users_remote, users_gen, todo_user, todos_gen,
          page, idx, status, clock, step>>

\* ----------------------------------------------------------- specifications
MaxPages == 2

\* the longest page of todos the service holds
MaxPerPage == 2

MaxUsers == 2

Statuses == {200, 304, 500}

PageBodies == { << >>, <<User(AllKeys, 1, <<"a", "/", "b">>)>>,
                <<User(AllKeys, 2, <<"a", ".", "b">>)>> }

RECURSIVE SeqsUpTo(_, _)
SeqsUpTo(S, n) ==
    IF n = 0 THEN { << >> }
    ELSE LET shorter == SeqsUpTo(S, n - 1)
         IN shorter \cup { Append(q, x) : q \in shorter, x \in S }

InitDirectory ==
    /\ fs = << >>
    /\ calls = 0
    /\ saved = {}
    /\ last = [username |-> <<>>, report |-> NoContent, outcome |-> "ok",
               valid |-> "None", dir |-> << >>, picked |-> NoName, prior |-> NoContent]

InitIdle ==
    /\ page = << >>
    /\ idx = 1
    /\ status = "running"
    /\ clock = 1
    /\ step = NoStep

\* save_report called on a directory that starts empty
InitSave ==
    /\ InitDirectory
    /\ InitIdle
    /\ users_remote = << >>
    /\ users_gen = NewGenerator
    /\ todo_user = 1
    /\ todos_gen = NewGenerator

NextSave == SaveReport

SpecSave == InitSave /\ [][NextSave]_vars

\* the two generators, each against an endpoint of at most MaxPages answers
InitFetch ==
    /\ InitDirectory
    /\ InitIdle
    /\ users_remote \in SeqsUpTo({ Response(c, b) : c \in Statuses, b \in PageBodies }, MaxPages)
    /\ users_gen = NewGenerator
    /\ todo_user \in UserIds
    /\ todos_gen = NewGenerator

NextFetch == GetUsersNext \/ GetTodosNext

SpecFetch == InitFetch /\ [][NextFetch]_vars

\* the users of the service cut into pages at `cut`
Serve(users, cut) ==
    LET first == SubSeq(users, 1, cut)
        rest == SubSeq(users, cut + 1, Len(users))
    IN (IF first = << >> THEN << >> ELSE << Response(200, first) >>)
       \o (IF rest = << >> THEN << >> ELSE << Response(200, rest) >>)

\* one run of the script, the directory empty at its start
InitMain ==
    /\ InitDirectory
    /\ InitIdle
    /\ \E users \in SeqsUpTo(UserRecords, MaxUsers) :
         \E cut \in 0..(IF Len(users) = 0 THEN 0 ELSE Len(users) - 1) :
           \E tail \in { << >>, << Response(500, << >>) >> } :
              users_remote = Serve(users, cut) \o tail
    /\ users_gen = NewGenerator
    /\ todo_user = 1
    /\ todos_gen = NewGenerator

NextMain == MainNextPage \/ MainUser

SpecMain == InitMain /\ [][NextMain]_vars

\* ================================================================= claims
\* The canonical path of the last call, and the archival names of a username.
LastPath == create_filename(last.username, <<>>)

OwnArchives(dir, username) ==
    { n \in DOMAIN dir : n.old /\ n.user = username /\ Len(n.date) = 5 }

\* C1: when save_report returns, whatever the outcome of the write, the canonical
\* file is absent, or holds exactly the new report, or holds a report saved
\* before that get_last_report picked among the archival files and the rollback
\* renamed back; no canonical file ever holds the remains of a torn write
\* (violated by a write that stops inside a character of several bytes).
C1_CanonicalNeverCorrupt ==
    /\ \A u \in Usernames :
          LET p == create_filename(u, <<>>)
          IN isfile(fs, p) => fs[p].complete /\ fs[p] \in saved
    /\ calls > 0 =>
          \/ ~ isfile(fs, LastPath)
          \/ fs[LastPath] = last.report
          \/ /\ last.picked # NoName
             /\ last.picked.old
             /\ fs[LastPath] = last.dir[last.picked]
             /\ fs[LastPath] \in saved

\* C2: after a save whose write succeeds and verifies, the canonical file holds
\* exactly the new report, and a prior canonical report with header timestamp
\* T = DD.MM.YYYY HH:MM now sits in old_{username}_{YYYY-MM-DDTHH:MM}.txt.
C2_ArchiveThenOverwrite ==
    (calls > 0 /\ last.outcome = "ok" /\ last.valid = "True") =>
        /\ isfile(fs, LastPath)
        /\ fs[LastPath] = last.report
        /\ (last.prior # NoContent /\ last.prior.date # NoDate) =>
              LET T == last.prior.date
                  name == [old |-> TRUE, user |-> last.username,
                           date |-> <<T[3], T[2], T[1], T[4], T[5]>>]
              IN /\ isfile(fs, name)
                 /\ fs[name] = last.prior

\* a verified save over a prior report that has a header timestamp and differs
C2_Witness ==
    /\ calls > 0
    /\ last.outcome = "ok"
    /\ last.valid = "True"
    /\ last.prior # NoContent
    /\ last.prior.date # NoDate
    /\ last.prior # last.report

\* C3: when a canonical report existed before the call and the write fails, the
\* canonical file holds, when the call returns, the content it held before.
C3_RollbackRestoresPrior ==
    (calls > 0 /\ last.valid \in {"False", "None"} /\ last.prior # NoContent) =>
        /\ isfile(fs, LastPath)
        /\ fs[LastPath] = last.prior

\* C4: when the write fails and the username has an archival file at rollback
\* time, the canonical path holds the content of that username's archival file
\* with the smallest time-delta to now, that file is gone from its archival
\* name, and the username's other archival files are left in place.
C4_RollbackPicksOwnLatest ==
    (calls > 0 /\ last.valid \in {"False", "None"}
               /\ OwnArchives(last.dir, last.username) # {}) =>
        \E n \in OwnArchives(last.dir, last.username) :
            /\ \A o \in OwnArchives(last.dir, last.username) :
                  datetime(o.date) <= datetime(n.date)
            /\ isfile(fs, LastPath)
            /\ fs[LastPath] = last.dir[n]
            /\ ~ isfile(fs, n)
            /\ \A o \in OwnArchives(last.dir, last.username) \ {n} :
                  isfile(fs, o) /\ fs[o] = last.dir[o]

\* C5: when the write fails and get_last_report finds no archival file, no
\* canonical file exists after the call.
C5_NoHistoryNoCanonical ==
    (calls > 0 /\ last.valid \in {"False", "None"} /\ last.picked = NoName) =>
        ~ isfile(fs, LastPath)

\* a torn write with nothing to roll back to
C5_Witness ==
    /\ calls > 0
    /\ last.outcome = "torn"
    /\ last.valid = "False"
    /\ last.picked = NoName

\* C10: no save_report call destroys an archived report: every archival file
\* either stays with its content or is renamed back to the canonical path by
\* the rollback, and a report superseded by a verified save is on disk under an
\* archival name afterwards.
C10_ArchivesNeverDestroyed ==
    [][ /\ \A n \in DOMAIN fs :
             n.old =>
               \/ isfile(fs', n) /\ fs'[n] = fs[n]
               \/ /\ ~ isfile(fs', n)
                  /\ last'.picked = n
                  /\ fs'[create_filename(last'.username, <<>>)] = fs[n]
        /\ (last'.valid = "True" /\ last'.prior # NoContent) =>
             \E n \in DOMAIN fs' : n.old /\ fs'[n] = last'.prior
      ]_vars

\* The todos of a user that pass validate_todo, as <<page, position>>, over the
\* pages the service holds for the user.
ValidTodos(user) ==
    LET remote == TodosRemote(user.id)
    IN { pos \in { <<i, j>> : i \in DOMAIN remote, j \in 1..MaxPerPage } :
           /\ pos[2] <= Len(remote[pos[1]].json)
           /\ validate_todo(remote[pos[1]].json[pos[2]]) }

\* MainUser has run: the inner loop moved on by one user
UserProcessed == idx' = idx + 1

\* C6: a user record that fails validate_user, or for which create_report
\* returns None, never ends the batch: the loop logs and goes on to the next user.
C6_BatchNeverAborts ==
    ~ ( /\ status = "raised"
        /\ step.raised
        /\ ~ step.validated \/ step.created = "None" )

\* C7: for a user with no todo that passes validate_todo, create_report returns
\* None, save_report is not called and the directory is left as it was.
C7_NoTasksNoFile ==
    [][ ( /\ UserProcessed
          /\ step'.validated
          /\ step'.created # "raised"
          /\ ValidTodos(step'.user) = {} )
        => ( /\ step'.created = "None"
             /\ ~ step'.saving
             /\ fs' = fs ) ]_vars

\* a user whose todos are all malformed was processed after a report was saved
C7_Witness ==
    /\ step.validated
    /\ step.created = "None"
    /\ step.user.id = 4
    /\ fs # << >>

\* C8: for a user with at least one todo that passes validate_todo, create_report
\* returns a report, whose task lines are as many as the current and completed
\* counts it prints, which add up to its total.
C8_ReportForValidTasks ==
    ( /\ step.validated
      /\ step.created # "raised"
      /\ step.created # "not called"
      /\ ValidTodos(step.user) # {} )
    => /\ step.created = "report"
       /\ LET total_tasks == step.report.body[4]
              cur_total == step.report.body[5]
              cur_tasks == step.report.body[6]
              comp_total == step.report.body[7]
              comp_tasks == step.report.body[8]
          IN /\ Len(cur_tasks) = cur_total
             /\ Len(comp_tasks) = comp_total
             /\ total_tasks = cur_total + comp_total

\* The first page number the endpoint answers with the empty list, and whether
\* every page before it is answered with status 200.
RECURSIVE FirstEmpty(_, _)
FirstEmpty(remote, k) ==
    IF requests_get(remote, k).json = << >> THEN k ELSE FirstEmpty(remote, k + 1)

PagesBefore(remote, k) == [i \in 1..(k - 1) |-> requests_get(remote, i).json]

OnePerPage(g, remote) ==
    LET k == FirstEmpty(remote, 1)
    IN (\A i \in 1..(k - 1) : requests_get(remote, i).status_code = 200) =>
         /\ g.state = "running" =>
              /\ g.requests < k
              /\ g.page_num = g.requests + 1
              /\ g.yielded = PagesBefore(remote, g.page_num)
         /\ g.state # "running" =>
              /\ g.requests = k
              /\ g.page_num = k
              /\ g.yielded = PagesBefore(remote, k)

\* C9: when page k is the first empty page and pages 1..k-1 answer 200, get_users
\* and get_todos ask for pages 1, 2, ... one request each, yield pages 1..k-1 in
\* order, and end after k requests without asking for page k+1.
C9_OneRequestPerPage ==
    /\ OnePerPage(users_gen, users_remote)
    /\ OnePerPage(todos_gen, TodosRemote(todo_user))

\* both generators ended after yielding two pages
C9_Witness ==
    /\ users_gen.state = "done"
    /\ Len(users_gen.yielded) = 2
    /\ users_gen.yielded[1] # users_gen.yielded[2]
    /\ todos_gen.state = "done"
    /\ Len(todos_gen.yielded) = 2

====
